---- MODULE Spec2Model ----
(***************************************************************************)
(* A model of the Lambda handlers of the stock-market pipeline:            *)
(*   process_batch_files_lambda      (daily batch dedup + append)          *)
(*   process_stock_stream_data       (SQS-triggered stream append + latest *)
(*                                    view overwrite)                      *)
(*   process_stock_stream_data (without SQS)                               *)
(*   write_records_to_stream         (price ticks put on the Kinesis       *)
(*                                    stream)                              *)
(*   generate_stock_batch_data       (daily CSV file put in staging)       *)
(* The durable state is the three datasets behind the Athena tables        *)
(* price_by_date, stream_prices_history and latest_prices, the Kinesis     *)
(* stream and the staging bucket.  An invocation                           *)
(* is a sequence of steps, one per external operation (S3 read, Athena     *)
(* query, S3 write) together with the computation that follows it.         *)
(*                                                                         *)
(* Encodings.  A date is the integer year*1000 + day-of-year, a timestamp  *)
(* is date*10 + a time-of-day slot.  A raw numeric field is held in tenths *)
(* (2105 is the text "210.5").  A dataframe cell is [na, v]: na is pandas' *)
(* NaN/NaT.  A dataset on S3 is a bag of rows (parquet files carry no row  *)
(* order).                                                                 *)
(***************************************************************************)
EXTENDS Integers, Sequences, FiniteSets, Bags, TLC

VARIABLES
    price_by_date,          \* bag of rows of the dataset behind stock_market.price_by_date
    stream_prices_history,  \* bag of rows of the dataset behind stream_prices_history
    latest_prices,          \* set of rows of the object behind latest_prices
    kinesis_stream,         \* bag of the records the Kinesis stream accepted
    staging,                \* set of the CSV files in the staging bucket
    clock,                  \* datetime.now(), as the number of invocations started
    inv                     \* inv[p]: the invocation running in Lambda slot p

vars == <<price_by_date, stream_prices_history, latest_prices, kinesis_stream, staging,
          clock, inv>>

\* ------------------------------------------------------------------ bounds
MaxInvocations == 2     \* invocations in one behaviour
MaxRows == 2            \* rows of one ingested CSV file
MaxMessages == 2        \* SQS messages of one event

\* Lambda slots.  The sequential specification uses the first one only.
Procs == {"p1", "p2"}
SeqProcs == {"p1"}

\* ------------------------------------------------------- dataframe cells
NaN == [na |-> TRUE, v |-> 0]
Val(x) == [na |-> FALSE, v |-> x]
Num(tenths) == [t |-> "num", v |-> tenths]
Text == [t |-> "text", v |-> 0]
Stamp(ts) == [t |-> "ts", v |-> ts]

\* pd.to_numeric(col, errors='coerce'): the number, NaN for what is no number
to_numeric(raw) == IF raw.t = "num" THEN Val(raw.v) ELSE NaN

\* .astype('int64') of a float cell: truncation toward zero
astype_int64(c) ==
    IF c.v >= 0 THEN Val(c.v \div 10) ELSE Val(0 - ((0 - c.v) \div 10))

\* pd.to_datetime(col, errors='coerce'): the timestamp, NaT for what is none
to_datetime(raw) == IF raw.t = "ts" THEN Val(raw.v) ELSE NaN

\* .dt.date of a datetime cell (NaT stays NaT)
dt_date(c) == IF c.na THEN NaN ELSE Val(c.v \div 10)

\* .dt.year of a datetime cell, and of a date
dt_year(c) == c.v \div 10000
year_of_date(d) == d \div 1000

\* df.dropna(subset=[col]) and col.isna().sum()
dropna(df, col) == SelectSeq(df, LAMBDA r : ~r[col].na)
isna_sum(df, col) == Len(SelectSeq(df, LAMBDA r : r[col].na))

RECURSIVE SeqToBag(_)
SeqToBag(s) ==
    IF s = <<>> THEN EmptyBag ELSE SetToBag({Head(s)}) (+) SeqToBag(Tail(s))

\* The rows of a dataset as a query returns them, in some row order.
RECURSIVE BagToSeq(_)
BagToSeq(b) ==
    IF BagToSet(b) = {} THEN <<>>
    ELSE LET e == CHOOSE x \in BagToSet(b) : TRUE
         IN  <<e>> \o BagToSeq(b (-) SetToBag({e}))

SeqsUpTo(S, n) == UNION {[1..k -> S] : k \in 0..n}

RECURSIVE FlatMap(_, _)
FlatMap(f(_), s) == IF s = <<>> THEN <<>> ELSE f(Head(s)) \o FlatMap(f, Tail(s))

Map(f(_), s) == [i \in 1..Len(s) |-> f(s[i])]

Ts(year, doy, slot) == (year * 1000 + doy) * 10 + slot

\* ------------------------------------------------------------ invocations
NoRet == [status |-> "", has_counts |-> FALSE, records_appended |-> 0]
Summary(status, n) == [status |-> status, has_counts |-> TRUE, records_appended |-> n]

IdleInv ==
    [handler |-> "", pc |-> "idle",
     messages |-> <<>>, paths |-> <<>>,
     df |-> <<>>, df_count |-> 0, df_clean |-> <<>>, bad_records_count |-> 0,
     df_athena |-> <<>>, df_new_records |-> <<>>, etl_loading_ts |-> 0,
     records |-> <<>>, queried |-> EmptyBag,
     ret |-> NoRet, err |-> "", caught |-> "", log |-> <<>>, io |-> <<>>,
     last_ok |-> FALSE, last_df |-> <<>>, rerun |-> FALSE, raised_before |-> FALSE,
     history_at_start |-> EmptyBag, latest_at_start |-> {}]

Finished(p) == inv[p].pc \in {"done", "raised"}

\* A starting invocation, with the stores as it met them (history, for the
\* claims that compare the stores before and after an invocation).  last_ok,
\* last_df and raised_before are kept from the slot: see EndInvocation.
Fresh(p, handler) ==
    [IdleInv EXCEPT !.handler = handler,
                    !.last_ok = inv[p].last_ok,
                    !.last_df = inv[p].last_df,
                    !.raised_before = inv[p].raised_before,
                    !.history_at_start =
                        IF handler = "batch" THEN EmptyBag ELSE stream_prices_history,
                    !.latest_at_start =
                        IF handler = "batch" THEN {} ELSE latest_prices]

\* The invocation is over: its result or its error went to the Lambda runtime
\* and its locals are gone.  When a batch invocation has returned, the object
\* it read may be delivered once more: the slot then remembers the ingested
\* rows, and the next invocation is the batch processor on that same object.
\* raised_before records that some invocation so far has raised.
EndInvocation(p) ==
    /\ Finished(p)
    /\ LET idle == [IdleInv EXCEPT !.raised_before =
                        inv[p].raised_before \/ inv[p].pc = "raised"]
       IN  \/ inv' = [inv EXCEPT ![p] = idle]
           \/ /\ inv[p].handler = "batch" /\ inv[p].pc = "done"
              /\ inv' = [inv EXCEPT ![p] =
                    [idle EXCEPT !.last_ok = TRUE, !.last_df = inv[p].df]]
    /\ UNCHANGED <<kinesis_stream, staging, price_by_date, stream_prices_history, latest_prices, clock>>

CanStart(p) == inv[p].pc = "idle" /\ clock < MaxInvocations

\* logger.error(f'<msg> {type(e).__name__} - {e}') followed by a bare raise:
\* the exception caught (caught) is the one that ends the invocation (err)
Logged(r, msg, kind) == [r EXCEPT !.log = r.log \o <<[msg |-> msg, kind |-> kind]>>]
Raise(r, msg, kind, ops) ==
    [Logged(r, msg, kind) EXCEPT !.pc = "raised", !.err = kind, !.caught = kind,
                                 !.io = r.io \o ops]

\* An except clause whose f-string reads a local that was never bound: the
\* clause raises UnboundLocalError before logger.error is called.
RaiseUnbound(r, kind, ops) ==
    [r EXCEPT !.pc = "raised", !.err = "UnboundLocalError", !.caught = kind,
              !.io = r.io \o ops]

Return(r, ret, ops) == [r EXCEPT !.pc = "done", !.ret = ret, !.io = r.io \o ops]

\* ------------------------------------------- process_batch_files_lambda
\* The rows a CSV file can hold: {company, date, close_price}, untyped.
RawBatchRows ==
    { [company |-> "AAPL", date |-> Stamp(Ts(2024, 1, 0)), close_price |-> Num(2000)],
      [company |-> "AAPL", date |-> Stamp(Ts(2024, 1, 0)), close_price |-> Num(0 - 55)],
      [company |-> "MSFT", date |-> Stamp(Ts(2024, 1, 0)), close_price |-> Num(2000)],
      [company |-> "AAPL", date |-> Stamp(Ts(2023, 365, 1)), close_price |-> Num(2105)],
      [company |-> "AAPL", date |-> Text, close_price |-> Num(2000)],
      [company |-> "AAPL", date |-> Stamp(Ts(2024, 1, 0)), close_price |-> Text],
      [company |-> "AAPL", date |-> Text, close_price |-> Text] }

RawBatches == SeqsUpTo(RawBatchRows, MaxRows)

\* lines 131-139: close_price to numeric, count and drop the NaN, cast to int64
batch_price_coerced(df) ==
    Map(LAMBDA r : [r EXCEPT !.close_price = to_numeric(r.close_price)], df)
batch_price_cleaned(df) ==
    Map(LAMBDA r : [r EXCEPT !.close_price = astype_int64(r.close_price)],
        dropna(batch_price_coerced(df), "close_price"))

\* line 148: date to datetime, then to a date
batch_date_coerced(df) ==
    Map(LAMBDA r : [r EXCEPT !.date = dt_date(to_datetime(r.date))], df)

\* Not the code: cleaning that keeps the rows whose date is NaT.
batch_clean_dates_kept(df) == batch_date_coerced(batch_price_cleaned(df))

\* lines 131-153: the cleaned dataframe
batch_clean(df) == dropna(batch_date_coerced(batch_price_cleaned(df)), "date")

\* lines 133 and 150: bad_records_count
batch_bad_records_count(df) ==
    isna_sum(batch_price_coerced(df), "close_price")
        + isna_sum(batch_date_coerced(batch_price_cleaned(df)), "date")

\* Not the code: a join on company alone.
merge_match_company_only(l, r) == l.company = r.company

\* line 170: the join condition of pd.merge(left_on=[company, date],
\* right_on=[company, close_date])
merge_match(l, r) == l.company = r.company /\ l.date.v = r.close_date

\* line 170: pd.merge(df_new_file, df_athena, how='left', ...): one row per
\* matching right row, one row with NaN right columns when there is none
merge_left(df_new_file, df_athena) ==
    LET joined(l) ==
            LET hits == SelectSeq(df_athena, LAMBDA r : merge_match(l, r))
            IN  IF hits = <<>>
                THEN << [company |-> l.company, date |-> l.date,
                         close_price_x |-> l.close_price,
                         close_date |-> NaN, close_price_y |-> NaN] >>
                ELSE Map(LAMBDA r : [company |-> l.company, date |-> l.date,
                                     close_price_x |-> l.close_price,
                                     close_date |-> Val(r.close_date),
                                     close_price_y |-> Val(r.close_price)], hits)
    IN  FlatMap(joined, df_new_file)

\* Not the code: a filter on the price of the left side.
new_rows_filter_left_column(m) == ~m.close_price_x.na

\* line 171: merged_df[merged_df['close_price_y'].isnull()]
new_rows_filter(m) == m.close_price_y.na

\* lines 171, 183, 187: the selected rows under the persisted schema
new_records(merged_df) ==
    Map(LAMBDA m : [company |-> m.company, close_date |-> m.date.v,
                    close_price |-> m.close_price_x.v,
                    p_year |-> year_of_date(m.date.v)],
        SelectSeq(merged_df, new_rows_filter))

\* Not the code: a write that keeps the first row of every key.
to_parquet_dataset_first_of_key(dataset, df) ==
    dataset (+) SetToBag({df[i] : i \in {k \in 1..Len(df) :
                    \A j \in 1..(k - 1) : <<df[j].company, df[j].close_date>>
                                             # <<df[k].company, df[k].close_date>>}})
\* line 188: wr.s3.to_parquet(df, path, dataset=True, partition_cols=[p_year]):
\* the rows are added to the dataset (mode defaults to append)
to_parquet_dataset(dataset, df) == dataset (+) SeqToBag(df)

\* A failed dataset write may have stored the files of some partitions.
PartialWrites(rows) ==
    LET years == {rows[i].p_year : i \in 1..Len(rows)}
    IN  {SelectSeq(rows, LAMBDA r : r.p_year \in Y) : Y \in SUBSET years}

\* lines 39-85: set-up and the destination path from the environment
BatchStart(p) ==
    /\ CanStart(p)
    /\ clock' = clock + 1
    /\ \E env_ok \in BOOLEAN :
         inv' = [inv EXCEPT ![p] =
                    IF env_ok THEN [Fresh(p, "batch") EXCEPT !.pc = "read_csv"]
                    ELSE Raise(Fresh(p, "batch"), "environment variable", "KeyError", <<>>)]
    /\ UNCHANGED <<kinesis_stream, staging, price_by_date, stream_prices_history, latest_prices>>

\* lines 89-107: wr.s3.read_csv(path) and the empty-file exit
BatchReadCsv(p) ==
    /\ inv[p].handler = "batch" /\ inv[p].pc = "read_csv"
    /\ \/ inv' = [inv EXCEPT ![p] =
                Raise(@, "reading the csv file", "S3ReadError", <<"s3.read_csv">>)]
       \/ \E df \in IF inv[p].last_ok THEN {inv[p].last_df} ELSE RawBatches :
            LET r == [inv[p] EXCEPT !.df = df, !.df_count = Len(df),
                                    !.rerun = inv[p].last_ok,
                                    !.last_ok = FALSE, !.last_df = <<>>]
            IN  inv' = [inv EXCEPT ![p] =
                    IF Len(df) = 0
                    THEN Return(r, Summary("success with warning", 0), <<"s3.read_csv">>)
                    ELSE [r EXCEPT !.pc = "athena", !.io = @ \o <<"s3.read_csv">>]]
    /\ UNCHANGED <<kinesis_stream, staging, price_by_date, stream_prices_history, latest_prices, clock>>

\* lines 114-176 and 226-237: SELECT * FROM price_by_date, cleaning, the join,
\* and the exit when no row is new
BatchReadAthena(p) ==
    /\ inv[p].handler = "batch" /\ inv[p].pc = "athena"
    /\ \/ inv' = [inv EXCEPT ![p] =
                Raise(@, "reading data using athena", "AthenaError", <<"athena.read_sql_query">>)]
       \/ LET df_athena == BagToSeq(price_by_date)
              df_new_file == batch_clean(inv[p].df)
              df_new_records == new_records(merge_left(df_new_file, df_athena))
              r == [inv[p] EXCEPT !.df_athena = df_athena,
                                  !.df_clean = df_new_file,
                                  !.bad_records_count = batch_bad_records_count(inv[p].df),
                                  !.df_new_records = df_new_records,
                                  !.io = @ \o <<"athena.read_sql_query">>]
          IN  inv' = [inv EXCEPT ![p] =
                  IF Len(df_new_records) > 0
                  THEN [r EXCEPT !.pc = "write"]
                  ELSE Return(r, Summary("success with warning", 0), <<>>)]
    /\ UNCHANGED <<kinesis_stream, staging, price_by_date, stream_prices_history, latest_prices, clock>>

\* lines 195-223: the summary after a write
batch_summary(df_new_file_records_count, df_new_records_count) ==
    IF df_new_file_records_count - df_new_records_count = 0
    THEN Summary("success", df_new_records_count)
    ELSE Summary("success with warning", df_new_records_count)

\* lines 179-223: wr.s3.to_parquet(df_new_records, dest_bucket_path, dataset=True)
BatchWrite(p) ==
    /\ inv[p].handler = "batch" /\ inv[p].pc = "write"
    /\ \/ \E part \in PartialWrites(inv[p].df_new_records) :
            /\ price_by_date' = to_parquet_dataset(price_by_date, part)
            /\ inv' = [inv EXCEPT ![p] =
                    Raise(@, "writing the file", "S3WriteError", <<"s3.to_parquet:append">>)]
       \/ /\ price_by_date' = to_parquet_dataset(price_by_date, inv[p].df_new_records)
          /\ inv' = [inv EXCEPT ![p] =
                Return(@, batch_summary(@.df_count, Len(@.df_new_records)),
                       <<"s3.to_parquet:append">>)]
    /\ UNCHANGED <<kinesis_stream, staging, stream_prices_history, latest_prices, clock>>

\* ------------------------------------------------ process_stock_stream_data
\* The objects in the source bucket: newline-delimited JSON with the fields
\* {symbol, price, produced_at}.
ObjectKeys == {"ticks-1.json", "ticks-2.json", "ticks-bad.json", "empty.json"}

S3Object(key) ==
    CASE key = "ticks-1.json" ->
           << [symbol |-> "AAPL", price |-> Num(2000), produced_at |-> Stamp(Ts(2023, 365, 5))] >>
      [] key = "ticks-2.json" ->
           << [symbol |-> "AAPL", price |-> Num(2105), produced_at |-> Stamp(Ts(2024, 1, 0))],
              [symbol |-> "MSFT", price |-> Num(0 - 55), produced_at |-> Stamp(Ts(2023, 365, 5))],
              [symbol |-> "AAPL", price |-> Num(1990), produced_at |-> Stamp(Ts(2024, 1, 0))] >>
      [] key = "ticks-bad.json" ->
           << [symbol |-> "AAPL", price |-> Text, produced_at |-> Stamp(Ts(2024, 1, 0))],
              [symbol |-> "MSFT", price |-> Num(2000), produced_at |-> Text],
              [symbol |-> "AAPL", price |-> Text, produced_at |-> Text] >>
      [] OTHER -> <<>>

\* The body of an SQS message: an S3 notification batch, or the s3:TestEvent
\* S3 sends when the notification is configured.  The one-row object
\* ticks-1.json reaches the stream processing through the direct S3 trigger.
TestEvent == [Event |-> "s3:TestEvent", Records |-> <<>>]
Notification(keys) == [Event |-> "", Records |-> keys]
MessageBodies ==
    { TestEvent,
      Notification(<<"ticks-2.json">>),
      Notification(<<"ticks-bad.json", "empty.json">>),
      Notification(<<"empty.json">>) }
Events == SeqsUpTo(MessageBodies, MaxMessages)

\* lines 130-143: the paths of the notifications of the messages that are no
\* test event
message_paths(message_body) ==
    IF message_body.Event = "s3:TestEvent" THEN <<>> ELSE message_body.Records
\* Not the code: an unwrapping that stops at the first test event.
RECURSIVE event_paths_until_test(_)
event_paths_until_test(messages) ==
    IF messages = <<>> \/ Head(messages).Event = "s3:TestEvent" THEN <<>>
    ELSE Head(messages).Records \o event_paths_until_test(Tail(messages))

event_paths(messages) == FlatMap(message_paths, messages)

\* wr.s3.read_json(path=paths, lines=True): the lines of all the objects
read_json(paths) == FlatMap(S3Object, paths)

\* lines 173-181: price to numeric, count and drop the NaN, cast to int64
stream_price_coerced(df) ==
    Map(LAMBDA r : [r EXCEPT !.price = to_numeric(r.price)], df)
stream_price_cleaned(df) ==
    Map(LAMBDA r : [r EXCEPT !.price = astype_int64(r.price)],
        dropna(stream_price_coerced(df), "price"))

\* line 184: produced_at to datetime
stream_date_coerced(df) ==
    Map(LAMBDA r : [r EXCEPT !.produced_at = to_datetime(r.produced_at)], df)

\* Not the code: both columns counted on the frame as read.
stream_bad_records_count_independent(df) ==
    isna_sum(stream_price_coerced(df), "price")
        + isna_sum(stream_date_coerced(df), "produced_at")

\* lines 175 and 186: bad_records_count
stream_bad_records_count(df) ==
    isna_sum(stream_price_coerced(df), "price")
        + isna_sum(stream_date_coerced(stream_price_cleaned(df)), "produced_at")

\* lines 173-198: the cleaned dataframe with etl_loading_ts and p_year
stream_clean(df, etl_loading_ts) ==
    Map(LAMBDA r : [symbol |-> r.symbol, price |-> r.price.v,
                    produced_at |-> r.produced_at.v,
                    etl_loading_ts |-> etl_loading_ts,
                    p_year |-> dt_year(r.produced_at)],
        dropna(stream_date_coerced(stream_price_cleaned(df)), "produced_at"))

\* Not the code: a processor that goes from the transformations to the
\* latest-price query, with no append in between.
StreamIngested_append_skipped(r, df, ops) ==
    IF Len(df) = 0
    THEN Return([r EXCEPT !.df = df, !.df_count = 0],
                Summary("success with warning", 0), ops)
    ELSE [r EXCEPT !.pc = "query", !.df = df, !.df_count = Len(df),
                   !.df_clean = stream_clean(df, clock),
                   !.bad_records_count = stream_bad_records_count(df),
                   !.etl_loading_ts = clock,
                   !.io = @ \o ops]

\* lines 155-202: the empty-file exit and the transformations
StreamIngested(r, df, ops) ==
    IF Len(df) = 0
    THEN Return([r EXCEPT !.df = df, !.df_count = 0],
                Summary("success with warning", 0), ops)
    ELSE [r EXCEPT !.pc = "append", !.df = df, !.df_count = Len(df),
                   !.df_clean = stream_clean(df, clock),
                   !.bad_records_count = stream_bad_records_count(df),
                   !.etl_loading_ts = clock,
                   !.io = @ \o ops]

IsStream(p) == inv[p].handler \in {"stream", "stream_nosqs"}

\* lines 56-106: set-up and the two destination paths from the environment.
\* The handler of a missing variable formats the variable it failed to bind,
\* so it raises UnboundLocalError before it logs.
StreamStart(p) ==
    /\ CanStart(p) /\ ~inv[p].last_ok
    /\ clock' = clock + 1
    /\ \E env_ok \in BOOLEAN, messages \in Events :
         LET r == [Fresh(p, "stream") EXCEPT !.messages = messages]
         IN  inv' = [inv EXCEPT ![p] =
                IF env_ok THEN [r EXCEPT !.pc = "connect"]
                ELSE RaiseUnbound(r, "KeyError", <<>>)]
    /\ UNCHANGED <<kinesis_stream, staging, price_by_date, stream_prices_history, latest_prices>>

\* Not the code: a handler that logs the failure and goes on.
connectivity_failure_logged(r, connected) ==
    Logged(connected, "athena connection failed", "AthenaError")

\* lines 116-118: the connectivity query failed: log and raise.  `connected`
\* is the invocation as it would go on had the query succeeded.
connectivity_failure(r, connected) ==
    Raise(r, "athena connection failed", "AthenaError", <<"athena.read_sql_query">>)

\* lines 109-143: the connectivity query, the no-message exit and the
\* unwrapping of the messages
StreamConnect(p) ==
    /\ inv[p].handler = "stream" /\ inv[p].pc = "connect"
    /\ LET connected ==
               IF inv[p].messages = <<>>
               THEN Return(inv[p], [NoRet EXCEPT !.status = "no_messages"],
                           <<"athena.read_sql_query">>)
               ELSE [inv[p] EXCEPT !.pc = "read_json",
                                   !.paths = event_paths(inv[p].messages),
                                   !.io = @ \o <<"athena.read_sql_query">>]
       IN  \/ inv' = [inv EXCEPT ![p] = connectivity_failure(inv[p], connected)]
           \/ inv' = [inv EXCEPT ![p] = connected]
    /\ UNCHANGED <<kinesis_stream, staging, price_by_date, stream_prices_history, latest_prices, clock>>

\* lines 146-202: wr.s3.read_json(paths), the empty-file exit and the
\* transformations.  With no path wr raises NoFilesFound, and the handler
\* formats the loop variable `path`, which was never bound.
StreamReadJson(p) ==
    /\ inv[p].handler = "stream" /\ inv[p].pc = "read_json"
    /\ \/ inv' = [inv EXCEPT ![p] =
                IF @.paths = <<>>
                THEN RaiseUnbound(@, "NoFilesFound", <<"s3.read_json">>)
                ELSE Raise(@, "reading the input stream data", "S3ReadError", <<"s3.read_json">>)]
       \/ /\ inv[p].paths # <<>>
          /\ inv' = [inv EXCEPT ![p] =
                StreamIngested(@, read_json(@.paths), <<"s3.read_json">>)]
    /\ UNCHANGED <<kinesis_stream, staging, price_by_date, stream_prices_history, latest_prices, clock>>

\* (without SQS) lines 55-58: the path of the notification that triggered it
NoSqsStart(p) ==
    /\ CanStart(p) /\ ~inv[p].last_ok
    /\ clock' = clock + 1
    /\ \E key \in ObjectKeys :
         inv' = [inv EXCEPT ![p] =
                    [Fresh(p, "stream_nosqs") EXCEPT !.pc = "read_json",
                                                     !.paths = <<key>>]]
    /\ UNCHANGED <<kinesis_stream, staging, price_by_date, stream_prices_history, latest_prices>>

\* (without SQS) lines 60-79: wr.s3.read_json(path), then the two destination
\* paths from the environment
NoSqsReadJson(p) ==
    /\ inv[p].handler = "stream_nosqs" /\ inv[p].pc = "read_json"
    /\ \/ inv' = [inv EXCEPT ![p] =
                Raise(@, "reading the input stream data", "S3ReadError", <<"s3.read_json">>)]
       \/ \E env_ok \in BOOLEAN :
            inv' = [inv EXCEPT ![p] =
                LET r == [@ EXCEPT !.df = read_json(inv[p].paths),
                                   !.df_count = Len(read_json(inv[p].paths)),
                                   !.io = @ \o <<"s3.read_json">>]
                IN  IF env_ok THEN [r EXCEPT !.pc = "connect"]
                    ELSE RaiseUnbound(r, "KeyError", <<>>)]
    /\ UNCHANGED <<kinesis_stream, staging, price_by_date, stream_prices_history, latest_prices, clock>>

\* (without SQS) lines 82-141: the connectivity query, the empty-file exit and
\* the transformations
NoSqsConnect(p) ==
    /\ inv[p].handler = "stream_nosqs" /\ inv[p].pc = "connect"
    /\ LET connected == StreamIngested(inv[p], inv[p].df, <<"athena.read_sql_query">>)
       IN  \/ inv' = [inv EXCEPT ![p] = connectivity_failure(inv[p], connected)]
           \/ inv' = [inv EXCEPT ![p] = connected]
    /\ UNCHANGED <<kinesis_stream, staging, price_by_date, stream_prices_history, latest_prices, clock>>

\* Not the code: an append of the rows the dataset does not hold yet.
to_parquet_append_unseen(dataset, df) ==
    dataset (+) SeqToBag(SelectSeq(df, LAMBDA r :
        \A h \in BagToSet(dataset) :
            <<h.symbol, h.price, h.produced_at>> # <<r.symbol, r.price, r.produced_at>>))

\* Not the code: mode='overwrite': the dataset becomes the rows of df.
to_parquet_overwrite(dataset, df) == SeqToBag(df)
\* lines 207-210: mode='append': every row of df is added to the dataset
to_parquet_append(dataset, df) == dataset (+) SeqToBag(df)

\* lines 206-213: wr.s3.to_parquet(df, dest_bucket_path, dataset=True,
\* mode='append', partition_cols=['p_year']).  wr refuses an empty dataframe
\* with EmptyDataFrame.
StreamAppend(p) ==
    /\ IsStream(p) /\ inv[p].pc = "append"
    /\ \/ /\ inv[p].df_clean = <<>>
          /\ inv' = [inv EXCEPT ![p] =
                Raise(@, "writing the file", "EmptyDataFrame", <<"s3.to_parquet:append">>)]
          /\ UNCHANGED stream_prices_history
       \/ /\ inv[p].df_clean # <<>>
          /\ \E part \in PartialWrites(inv[p].df_clean) :
                stream_prices_history' = to_parquet_append(stream_prices_history, part)
          /\ inv' = [inv EXCEPT ![p] =
                Raise(@, "writing the file", "S3WriteError", <<"s3.to_parquet:append">>)]
       \/ /\ inv[p].df_clean # <<>>
          /\ stream_prices_history' = to_parquet_append(stream_prices_history, inv[p].df_clean)
          /\ inv' = [inv EXCEPT ![p] = [@ EXCEPT !.pc = "query",
                                                 !.io = @ \o <<"s3.to_parquet:append">>]]
    /\ UNCHANGED <<kinesis_stream, staging, price_by_date, latest_prices, clock>>

\* lines 216-224: the rows the query may return: for every symbol with a row
\* where p_year = year(produced_at), one row of rank 1 under
\* row_number() over (partition by symbol order by produced_at desc)
scanned(history) ==
    {r \in BagToSet(history) : r.p_year = dt_year(Val(r.produced_at))}
\* Not the code: order by produced_at asc.
ranked_last(rows, r) ==
    \A o \in rows : o.symbol = r.symbol => o.produced_at >= r.produced_at
\* order by produced_at desc, ranking = 1
ranked_first(rows, r) ==
    \A o \in rows : o.symbol = r.symbol => o.produced_at <= r.produced_at
latest_prices_query(history) ==
    LET rows == scanned(history)
        symbols == {r.symbol : r \in rows}
        picks == [symbols -> rows]
    IN  { {[symbol |-> f[s].symbol, price |-> f[s].price,
            produced_at |-> f[s].produced_at] : s \in symbols} :
          f \in {g \in picks : \A s \in symbols :
                    g[s].symbol = s /\ ranked_first(rows, g[s])} }

\* lines 226-231: the query and the etl_loading_ts column (queried: the store
\* as the query scanned it)
StreamQuery(p) ==
    /\ IsStream(p) /\ inv[p].pc = "query"
    /\ \/ inv' = [inv EXCEPT ![p] =
                Raise(@, "reading data using athena", "AthenaError", <<"athena.read_sql_query">>)]
       \/ \E result \in latest_prices_query(stream_prices_history) :
            inv' = [inv EXCEPT ![p] =
                [@ EXCEPT !.pc = "overwrite",
                          !.queried = stream_prices_history,
                          !.df_athena = BagToSeq(SetToBag(
                              {[symbol |-> r.symbol, price |-> r.price,
                                produced_at |-> r.produced_at,
                                etl_loading_ts |-> inv[p].etl_loading_ts] : r \in result})),
                          !.io = @ \o <<"athena.read_sql_query">>]]
    /\ UNCHANGED <<kinesis_stream, staging, price_by_date, stream_prices_history, latest_prices, clock>>

\* Not the code: a summary that never downgrades the status.
stream_summary_success(bad_records_count, rows) == Summary("success", rows)

\* Not the code: a summary that counts the rejected rows as appended too.
stream_summary_ingested(bad_records_count, rows) ==
    IF bad_records_count = 0 THEN Summary("success", rows)
    ELSE Summary("success with warning", rows + bad_records_count)
\* lines 242-269: the summary
stream_summary(bad_records_count, rows) ==
    IF bad_records_count = 0 THEN Summary("success", rows)
    ELSE Summary("success with warning", rows)

\* lines 234-237: wr.s3.to_parquet(df, path) without dataset=True writes the
\* one object at path: its rows are those of df, whatever it held before
Rows(df) == {df[i] : i \in 1..Len(df)}
\* Not the code: a write that keeps the rows of the object it replaces.
to_parquet_object_merged(previous, df) == previous \cup Rows(df)
to_parquet_object(previous, df) == Rows(df)

\* lines 233-269: wr.s3.to_parquet(df_athena, dest_bucket_path_overwrite), one
\* object put in place of the previous one, and the summary
StreamOverwrite(p) ==
    /\ IsStream(p) /\ inv[p].pc = "overwrite"
    /\ \/ /\ inv[p].df_athena = <<>>
          /\ inv' = [inv EXCEPT ![p] =
                Raise(@, "writing the file", "EmptyDataFrame", <<"s3.to_parquet:overwrite">>)]
          /\ UNCHANGED latest_prices
       \/ /\ inv[p].df_athena # <<>>
          /\ inv' = [inv EXCEPT ![p] =
                Raise(@, "writing the file", "S3WriteError", <<"s3.to_parquet:overwrite">>)]
          /\ UNCHANGED latest_prices
       \/ /\ inv[p].df_athena # <<>>
          /\ latest_prices' = to_parquet_object(latest_prices, inv[p].df_athena)
          /\ inv' = [inv EXCEPT ![p] =
                Return(@, stream_summary(@.bad_records_count, Len(@.df_clean)),
                       <<"s3.to_parquet:overwrite">>)]
    /\ UNCHANGED <<kinesis_stream, staging, price_by_date, stream_prices_history, clock>>

\* ------------------------------------------------ write_records_to_stream
\* lines 121-138 (generate_stock_batch_data lines 78-95): the prices of
\* 25/01/2025, in the order of the dictionary
companies_price ==
    << [symbol |-> "NVDA", current_price |-> 143],
       [symbol |-> "AAPL", current_price |-> 223],
       [symbol |-> "MSFT", current_price |-> 444],
       [symbol |-> "AMZN", current_price |-> 234],
       [symbol |-> "GOOGL", current_price |-> 200],
       [symbol |-> "META", current_price |-> 647],
       [symbol |-> "TSLA", current_price |-> 407],
       [symbol |-> "WMT", current_price |-> 95],
       [symbol |-> "JPM", current_price |-> 265],
       [symbol |-> "V", current_price |-> 330],
       [symbol |-> "ORCL", current_price |-> 184],
       [symbol |-> "MA", current_price |-> 490],
       [symbol |-> "XOM", current_price |-> 109],
       [symbol |-> "NFLX", current_price |-> 978],
       [symbol |-> "PG", current_price |-> 164],
       [symbol |-> "SAP", current_price |-> 276] >>

\* Not the code: an upper end the draw may reach.
max_price_inclusive(current_price) == (current_price * 11) \div 10 + 1
\* lines 146-147: int(current_price * 0.9) and int(current_price * 1.1)
min_price(current_price) == (current_price * 9) \div 10
max_price(current_price) == (current_price * 11) \div 10

\* random.randrange(a, b): an integer of a..b-1.  The draws followed here
\* are the two ends of the range, the same end for every symbol of a run.
randrange(a, b) == a..(b - 1)
Draws == {"lowest", "highest"}
drawn(draw, a, b) ==
    IF draw = "lowest" THEN CHOOSE x \in randrange(a, b) : x = a
    ELSE CHOOSE x \in randrange(a, b) : x = b - 1

\* The second in which invocation number n starts; while the records are
\* built the clock may pass to the next second, before the iteration of the
\* loop given by a tick (0: it does not).
second_of(n) == Ts(2025, 25, 2 * n)
Ticks == {0, 3, Len(companies_price)}

\* lines 143-159: one record per symbol: a price drawn in
\* [min_price, max_price) and produced_at = datetime.now() taken in the
\* iteration of that symbol, formatted to the second
stock_data_loop(draw, started, tick) ==
    [k \in 1..Len(companies_price) |->
        [symbol |-> companies_price[k].symbol,
         price |-> drawn(draw, min_price(companies_price[k].current_price),
                               max_price(companies_price[k].current_price)),
         produced_at |-> IF tick # 0 /\ k >= tick THEN started + 1 ELSE started]]

\* line 161: randrange(5, 16), the size of the sample.  The sizes followed
\* here are the smallest and the largest.
SampleSizes == {CHOOSE k \in randrange(5, 16) : \A j \in randrange(5, 16) : k <= j,
                CHOOSE k \in randrange(5, 16) : \A j \in randrange(5, 16) : k >= j}

\* Not the code: k draws with replacement (random.choices), here k times the
\* first record.
choices(population) ==
    {[i \in 1..k |-> population[1]] : k \in SampleSizes}

\* line 161: sample(stock_data, k): k records of the list at k distinct
\* positions.  The samples followed here are the first and the last k
\* positions.
sample(population) ==
    UNION {{SubSeq(population, 1, k),
            SubSeq(population, Len(population) - k + 1, Len(population))} :
           k \in SampleSizes}

\* lines 55-107 and 168-202: the stream name from the environment when the
\* module is loaded, then create_stock_market_data() and the encoding
ProducerStart(p) ==
    /\ CanStart(p) /\ ~inv[p].last_ok
    /\ clock' = clock + 1
    /\ \E env_ok \in BOOLEAN, draw \in Draws, tick \in Ticks :
         \E records \in sample(stock_data_loop(draw, second_of(clock'), tick)) :
            inv' = [inv EXCEPT ![p] =
                IF env_ok
                THEN [Fresh(p, "producer") EXCEPT !.pc = "put_records", !.records = records]
                ELSE Raise(Fresh(p, "producer"), "retrieving the stream_name", "KeyError", <<>>)]
    /\ UNCHANGED <<price_by_date, stream_prices_history, latest_prices, kinesis_stream, staging>>

\* The records of a put_records call that Kinesis may report as failed, by
\* position: none, the first, all of them.
FailedPositions(records) == {{}, {1}, 1..Len(records)}
accepted(records, failed) ==
    SeqToBag([i \in 1..(Len(records) - Cardinality(failed)) |->
                 SelectSeq([j \in 1..Len(records) |-> [at |-> j, record |-> records[j]]],
                           LAMBDA x : x.at \notin failed)[i].record])

\* lines 217-218: the value returned
put_records_result(records, FailedRecordCount) ==
    [FailedRecordCount |-> FailedRecordCount, SuccessRecordCount |-> Len(records)]

\* lines 204-218: kinesis_client.put_records(Records, StreamName): it raises,
\* or it answers with the number of records that failed, and the handler
\* returns the counts
ProducerPutRecords(p) ==
    /\ inv[p].handler = "producer" /\ inv[p].pc = "put_records"
    /\ \/ /\ inv' = [inv EXCEPT ![p] =
                Raise(@, "pushing the data to the stream", "KinesisError", <<"kinesis.put_records">>)]
          /\ UNCHANGED kinesis_stream
       \/ \E failed \in FailedPositions(inv[p].records) :
            /\ kinesis_stream' = kinesis_stream (+) accepted(inv[p].records, failed)
            /\ inv' = [inv EXCEPT ![p] =
                  Return(@, put_records_result(@.records, Cardinality(failed)),
                         <<"kinesis.put_records">>)]
    /\ UNCHANGED <<price_by_date, stream_prices_history, latest_prices, staging, clock>>

\* ---------------------------------------------- generate_stock_batch_data
\* lines 104-110: date_1 + timedelta(days=randrange((date_2 - date_1).days)):
\* a day from 2022-01-01 to 2024-12-30.  The days followed here are the first
\* and the last.
RandomDates == {2022 * 1000 + 1, 2024 * 1000 + 365}

\* lines 113-132: one row per symbol, with the one random_date and a
\* close_price drawn in [min_price, max_price)
generated_rows(draw, random_date) ==
    [k \in 1..Len(companies_price) |->
        [company |-> companies_price[k].symbol,
         date |-> random_date,
         close_price |-> drawn(draw, min_price(companies_price[k].current_price),
                                     max_price(companies_price[k].current_price))]]

\* lines 40-132: the random date, the prices and the dataframe
GeneratorStart(p) ==
    /\ CanStart(p) /\ ~inv[p].last_ok
    /\ clock' = clock + 1
    /\ \E draw \in Draws, random_date \in RandomDates :
         inv' = [inv EXCEPT ![p] =
            [Fresh(p, "generator") EXCEPT !.pc = "to_csv",
                                          !.df = generated_rows(draw, random_date)]]
    /\ UNCHANGED <<price_by_date, stream_prices_history, latest_prices, kinesis_stream, staging>>

\* A function that ends without a return statement returns None.
None == [none |-> TRUE]

\* lines 143-155: the file name from datetime.today(), the destination from
\* the environment, wr.s3.to_csv(df, path)
GeneratorExport(p) ==
    /\ inv[p].handler = "generator" /\ inv[p].pc = "to_csv"
    /\ \/ /\ inv' = [inv EXCEPT ![p] = Raise(@, "exporting the file", "KeyError", <<>>)]
          /\ UNCHANGED staging
       \/ /\ inv' = [inv EXCEPT ![p] =
                Raise(@, "exporting the file", "S3WriteError", <<"s3.to_csv">>)]
          /\ UNCHANGED staging
       \/ /\ staging' = {f \in staging : f.file_name # second_of(clock)}
                            \cup {[file_name |-> second_of(clock), rows |-> inv[p].df]}
          /\ inv' = [inv EXCEPT ![p] = Return(@, None, <<"s3.to_csv">>)]
    /\ UNCHANGED <<price_by_date, stream_prices_history, latest_prices, kinesis_stream, clock>>

Init ==
    /\ price_by_date = EmptyBag
    /\ stream_prices_history = EmptyBag
    /\ latest_prices = {}
    /\ kinesis_stream = EmptyBag
    /\ staging = {}
    /\ clock = 0
    /\ inv = [p \in Procs |-> IdleInv]

NextBatch ==
    \E p \in SeqProcs :
        \/ EndInvocation(p)
        \/ BatchStart(p)
        \/ BatchReadCsv(p)
        \/ BatchReadAthena(p)
        \/ BatchWrite(p)

NextStream ==
    \E p \in SeqProcs :
        \/ EndInvocation(p)
        \/ StreamStart(p)
        \/ StreamConnect(p)
        \/ StreamReadJson(p)
        \/ NoSqsStart(p)
        \/ NoSqsReadJson(p)
        \/ NoSqsConnect(p)
        \/ StreamAppend(p)
        \/ StreamQuery(p)
        \/ StreamOverwrite(p)

Next ==
    \E p \in SeqProcs :
        \/ EndInvocation(p)
        \/ BatchStart(p)
        \/ BatchReadCsv(p)
        \/ BatchReadAthena(p)
        \/ BatchWrite(p)
        \/ StreamStart(p)
        \/ StreamConnect(p)
        \/ StreamReadJson(p)
        \/ NoSqsStart(p)
        \/ NoSqsReadJson(p)
        \/ NoSqsConnect(p)
        \/ StreamAppend(p)
        \/ StreamQuery(p)
        \/ StreamOverwrite(p)

NextProduce ==
    \E p \in SeqProcs :
        \/ EndInvocation(p)
        \/ ProducerStart(p)
        \/ ProducerPutRecords(p)
        \/ GeneratorStart(p)
        \/ GeneratorExport(p)

\* Two invocations of the streaming processor at the same time, one in each
\* Lambda slot, each triggered by the notification of one object.
NextConcurrent ==
    \E p \in Procs :
        \/ NoSqsStart(p)
        \/ NoSqsReadJson(p)
        \/ NoSqsConnect(p)
        \/ StreamAppend(p)
        \/ StreamQuery(p)
        \/ StreamOverwrite(p)

\* Two invocations of the batch processor at the same time, one in each
\* Lambda slot, each triggered by the notification of one object.
NextConcurrentBatch ==
    \E p \in Procs :
        \/ BatchStart(p)
        \/ BatchReadCsv(p)
        \/ BatchReadAthena(p)
        \/ BatchWrite(p)
\* Invocations one after the other: of any processor, of the batch processor
\* alone, of the streaming processors alone, of the two data generators.
Spec == Init /\ [][Next]_vars
SpecBatch == Init /\ [][NextBatch]_vars
SpecStream == Init /\ [][NextStream]_vars
SpecProduce == Init /\ [][NextProduce]_vars
SpecConcurrent == Init /\ [][NextConcurrent]_vars
SpecConcurrentBatch == Init /\ [][NextConcurrentBatch]_vars

\* ======================================================== the claims
HasIo(p, op) == \E i \in 1..Len(inv[p].io) : inv[p].io[i] = op
Wrote(p) == HasIo(p, "s3.to_parquet:append") \/ HasIo(p, "s3.to_parquet:overwrite")

\* The batch invocation in slot p has read the snapshot and computed the delta.
Joined(p) ==
    /\ inv[p].handler = "batch"
    /\ HasIo(p, "athena.read_sql_query")
    /\ inv[p].err # "AthenaError"

BatchKey(r) == <<r.company, r.date.v>>
StoreKey(r) == <<r.company, r.close_date>>
SnapshotKeys(p) == {StoreKey(inv[p].df_athena[i]) : i \in 1..Len(inv[p].df_athena)}

\* C1: the rows selected for appending are exactly the rows of the cleaned
\* batch, in their order and once per occurrence, whose key (company, date)
\* is the key (company, close_date) of no row of the snapshot; no selected
\* row shares its key with a snapshot row, whatever the prices are.
C1_DeltaIsKeyDifference ==
    \A p \in Procs : Joined(p) =>
        LET absent == SelectSeq(inv[p].df_clean,
                                LAMBDA r : BatchKey(r) \notin SnapshotKeys(p))
            D == inv[p].df_new_records
        IN  /\ Len(D) = Len(absent)
            /\ \A i \in 1..Len(D) :
                 /\ D[i].company = absent[i].company
                 /\ D[i].close_date = absent[i].date.v
                 /\ D[i].close_price = absent[i].close_price.v
                 /\ StoreKey(D[i]) \notin SnapshotKeys(p)

\* C1 witness: a delta that keeps one row and leaves out another whose key is
\* in the snapshot under a different price.
C1_Witness ==
    \E p \in Procs :
        /\ Joined(p)
        /\ inv[p].df_new_records # <<>>
        /\ \E i \in 1..Len(inv[p].df_clean), j \in 1..Len(inv[p].df_athena) :
             /\ BatchKey(inv[p].df_clean[i]) = StoreKey(inv[p].df_athena[j])
             /\ inv[p].df_clean[i].close_price.v # inv[p].df_athena[j].close_price

\* C2: a batch invocation that runs on the input of the invocation before it,
\* which returned, computes an empty delta, makes no write and returns
\* records_appended = 0.
C2_SecondRunAppendsNothing ==
    \A p \in Procs : (inv[p].handler = "batch" /\ inv[p].rerun) =>
        /\ Joined(p) => inv[p].df_new_records = <<>>
        /\ inv[p].pc # "write"
        /\ ~Wrote(p)
        /\ inv[p].pc = "done" => inv[p].ret.records_appended = 0

\* C2 witness: the second run has returned, and the first one had appended rows.
C2_Witness ==
    \E p \in Procs :
        /\ inv[p].handler = "batch" /\ inv[p].rerun /\ inv[p].pc = "done"
        /\ inv[p].df_clean # <<>>
        /\ \A i \in 1..Len(inv[p].df_clean) :
             BatchKey(inv[p].df_clean[i]) \in SnapshotKeys(p)

\* C3: as long as every invocation has completed, the persisted store holds
\* at most one close_price per (company, close_date).
UniqueKeys(store) ==
    \A r1, r2 \in BagToSet(store) :
        StoreKey(r1) = StoreKey(r2) => r1.close_price = r2.close_price
C3_StoreKeysUnique ==
    (\A p \in Procs : ~inv[p].raised_before /\ inv[p].pc # "raised")
        => UniqueKeys(price_by_date)

\* The cleaned batch of the invocation in slot p is empty: the file had no
\* row, or every row has a price that is no number or a date that is no date.
Rejected(r) == r.close_price.t # "num" \/ r.date.t # "ts"
EmptyCleanedBatch(p) ==
    /\ inv[p].handler = "batch"
    /\ \/ HasIo(p, "s3.read_csv") /\ inv[p].err # "S3ReadError" /\ inv[p].df = <<>>
       \/ Joined(p) /\ \A i \in 1..Len(inv[p].df) : Rejected(inv[p].df[i])

\* C4: a batch invocation whose cleaned batch is empty returns
\* records_appended = 0 with status "success with warning" and makes no write.
C4_EmptyBatchShortCircuit ==
    \A p \in Procs : EmptyCleanedBatch(p) =>
        /\ inv[p].pc = "done"
        /\ inv[p].ret = Summary("success with warning", 0)
        /\ ~Wrote(p)

\* C4 witness: every row of a file with rows was rejected, and the snapshot
\* has rows.
C4_Witness ==
    \E p \in Procs :
        /\ EmptyCleanedBatch(p)
        /\ inv[p].df # <<>>
        /\ inv[p].df_athena # <<>>

\* The streaming invocation in slot p has ingested rows and transformed them.
StreamCleaned(p) == IsStream(p) /\ inv[p].etl_loading_ts # 0

PriceFails(r, col) == r[col].t # "num"
DateFails(r, col) == r[col].t # "ts"
Count(df, Test(_)) == Len(SelectSeq(df, Test))

\* C5: a streaming invocation whose batch to write is empty attempts no write
\* to the historical store and, once over, has returned records_appended = 0.
C5_NoWriteOnEmptyBatch ==
    \A p \in Procs : (StreamCleaned(p) /\ inv[p].df_clean = <<>>) =>
        /\ ~HasIo(p, "s3.to_parquet:append")
        /\ Finished(p) => (inv[p].pc = "done" /\ inv[p].ret.records_appended = 0)

\* C6 as claimed: bad_records_count is the number of rows whose price is no
\* number plus the number of rows whose date is no date, a row that fails
\* both counting twice.
C6_BadCountIsSumOfBoth ==
    \A p \in Procs :
        /\ Joined(p) =>
             inv[p].bad_records_count =
                 Count(inv[p].df, LAMBDA r : PriceFails(r, "close_price"))
                     + Count(inv[p].df, LAMBDA r : DateFails(r, "date"))
        /\ StreamCleaned(p) =>
             inv[p].bad_records_count =
                 Count(inv[p].df, LAMBDA r : PriceFails(r, "price"))
                     + Count(inv[p].df, LAMBDA r : DateFails(r, "produced_at"))

\* C6 amended: bad_records_count is the number of rows whose price is no
\* number plus the number of rows whose price is a number and whose date is
\* no date: every rejected row counts once.
C6_BadCountIsRejectedRows ==
    \A p \in Procs :
        /\ Joined(p) =>
             inv[p].bad_records_count =
                 Count(inv[p].df, LAMBDA r : PriceFails(r, "close_price"))
                     + Count(inv[p].df, LAMBDA r : ~PriceFails(r, "close_price")
                                                   /\ DateFails(r, "date"))
        /\ StreamCleaned(p) =>
             inv[p].bad_records_count =
                 Count(inv[p].df, LAMBDA r : PriceFails(r, "price"))
                     + Count(inv[p].df, LAMBDA r : ~PriceFails(r, "price")
                                                   /\ DateFails(r, "produced_at"))

\* C6 witness: a streaming batch with a row that fails both checks, one that
\* fails on the price alone and one that fails on the date alone.
C6_Witness ==
    \E p \in Procs :
        /\ StreamCleaned(p)
        /\ \E i, j, k \in 1..Len(inv[p].df) :
             /\ PriceFails(inv[p].df[i], "price") /\ DateFails(inv[p].df[i], "produced_at")
             /\ PriceFails(inv[p].df[j], "price") /\ ~DateFails(inv[p].df[j], "produced_at")
             /\ ~PriceFails(inv[p].df[k], "price") /\ DateFails(inv[p].df[k], "produced_at")

\* The streaming invocation in slot p has returned / has returned after it
\* put the result of its query in place of the latest-prices object.
Completed(p) == IsStream(p) /\ inv[p].pc = "done"
Overwrote(p) == Completed(p) /\ HasIo(p, "s3.to_parquet:overwrite")

\* latest_prices holds one row for every symbol of the historical store, no
\* row for another symbol, and the produced_at of a row is the greatest
\* produced_at among the historical rows of its symbol.
LatestViewCorrect ==
    LET H == BagToSet(stream_prices_history)
    IN  /\ \A s \in {h.symbol : h \in H} :
             Cardinality({v \in latest_prices : v.symbol = s}) = 1
        /\ \A v \in latest_prices :
             /\ \E h \in H : h.symbol = v.symbol /\ h.produced_at = v.produced_at
             /\ \A h \in H : h.symbol = v.symbol => h.produced_at <= v.produced_at

\* C7 as claimed: whenever a streaming invocation has completed normally, the
\* latest view is correct for the historical store.
C7_LatestCorrectAfterNormalCompletion ==
    \A p \in Procs : Completed(p) => LatestViewCorrect

\* C7 amended: whenever a streaming invocation has completed normally after
\* it appended its rows, queried the store and overwrote the view (it did not
\* leave at the no-message or the empty-file exit), the latest view is
\* correct for the historical store.
C7_LatestCorrectAfterOverwrite ==
    \A p \in Procs : Overwrote(p) => LatestViewCorrect

\* C7 witness: the invocation overwrote the view, and the store has rows of
\* one symbol with different produced_at, from this invocation and from an
\* earlier one.
C7_Witness ==
    \E p \in Procs :
        /\ Overwrote(p)
        /\ \E h1, h2 \in BagToSet(stream_prices_history) :
             /\ h1.symbol = h2.symbol /\ h1.produced_at < h2.produced_at
             /\ h1.etl_loading_ts # h2.etl_loading_ts

QueryRow(v) == [symbol |-> v.symbol, price |-> v.price, produced_at |-> v.produced_at]

\* C8 as claimed: after every streaming invocation that completes normally
\* the view holds the rows the query of that invocation returned, and no
\* other row.
C8_ViewIsQueryResultAfterNormalCompletion ==
    \A p \in Procs : Completed(p) => latest_prices = Rows(inv[p].df_athena)

\* C8 amended: after every streaming invocation that completes normally
\* having reached the overwrite, the view holds the rows the query of that
\* invocation returned and no other row: they are a result of the query on
\* the historical store, stamped with the load time of this invocation, and
\* no row of the previous view is among them.
C8_ViewIsQueryResultAfterOverwrite ==
    \A p \in Procs : Overwrote(p) =>
        /\ latest_prices = Rows(inv[p].df_athena)
        /\ {QueryRow(v) : v \in latest_prices} \in latest_prices_query(stream_prices_history)
        /\ \A v \in latest_prices : v.etl_loading_ts = inv[p].etl_loading_ts
        /\ latest_prices \cap inv[p].latest_at_start = {}

\* C8 witness: the invocation overwrote a view that had a row for a symbol
\* whose latest row the query of the invocation produced again.
C8_Witness ==
    \E p \in Procs :
        /\ Overwrote(p)
        /\ \E old \in inv[p].latest_at_start, v \in latest_prices :
             QueryRow(old) = QueryRow(v)

\* C9: a streaming invocation that has completed normally has added every
\* row of its cleaned batch to the historical store, once per occurrence,
\* whatever the store held: the store is the store it met plus those rows.
C9_AppendsEveryCleanRow ==
    \A p \in Procs : Completed(p) =>
        stream_prices_history = inv[p].history_at_start (+) SeqToBag(inv[p].df_clean)

\* C9 witness: the invocation appended a row that the store already held
\* from an earlier invocation with the same symbol, price and produced_at.
C9_Witness ==
    \E p \in Procs :
        /\ Completed(p)
        /\ \E i \in 1..Len(inv[p].df_clean), h \in BagToSet(inv[p].history_at_start) :
             QueryRow(h) = QueryRow(inv[p].df_clean[i])

\* The connectivity query of the streaming invocation in slot p has failed.
ConnectivityFailed(p) ==
    /\ IsStream(p)
    /\ \E i \in 1..Len(inv[p].log) : inv[p].log[i].msg = "athena connection failed"

\* C10: in both streaming processors, when the connectivity query has failed
\* the invocation has raised, it has attempted no write, and the historical
\* store and the latest view are as the invocation met them.
C10_FailFastOnConnectivity ==
    \A p \in Procs : ConnectivityFailed(p) =>
        /\ inv[p].pc = "raised"
        /\ ~Wrote(p)
        /\ stream_prices_history = inv[p].history_at_start
        /\ latest_prices = inv[p].latest_at_start

\* C10 witness: the connectivity query failed in an invocation with rows to
\* write, when the two stores had rows.
C10_Witness ==
    \E p \in Procs :
        /\ ConnectivityFailed(p)
        /\ inv[p].history_at_start # EmptyBag /\ inv[p].latest_at_start # {}
        /\ \/ inv[p].handler = "stream" /\ inv[p].messages # <<>>
           \/ inv[p].handler = "stream_nosqs" /\ inv[p].df # <<>>

\* A required environment variable was missing in the invocation in slot p.
ConfigMissing(p) == inv[p].caught = "KeyError"

\* C11: in every handler, when a required configuration value is missing the
\* invocation has raised and has performed no external operation: no read of
\* a source object, no query, no write, no publish.
C11_ConfigErrorsPrecedeIo ==
    \A p \in Procs : ConfigMissing(p) => (inv[p].pc = "raised" /\ inv[p].io = <<>>)

\* C12: every invocation that has raised has logged, last, an error entry
\* with the kind of the error it caught, and the error that ended it is that
\* error.
C12_FatalErrorsLoggedThenReraised ==
    \A p \in Procs : inv[p].pc = "raised" =>
        /\ inv[p].err = inv[p].caught
        /\ inv[p].log # <<>>
        /\ inv[p].log[Len(inv[p].log)].kind = inv[p].caught

\* The invocation of a processor in slot p has returned / has returned a
\* summary with counts; the number of ingested rows that cleaning rejects.
IsProcessor(p) == inv[p].handler \in {"batch", "stream", "stream_nosqs"}
Returned(p) == IsProcessor(p) /\ inv[p].pc = "done"
ReturnedSummary(p) == Returned(p) /\ inv[p].ret.has_counts
RejectedCount(p) ==
    IF inv[p].handler = "batch"
    THEN Count(inv[p].df, LAMBDA r : PriceFails(r, "close_price") \/ DateFails(r, "date"))
    ELSE Count(inv[p].df, LAMBDA r : PriceFails(r, "price") \/ DateFails(r, "produced_at"))

\* C13: in every summary a batch or streaming invocation returns, the status
\* is "success with warning" whenever an ingested row was rejected or
\* records_appended is smaller than the number of rows ingested, and
\* "success" only when records_appended is the number of rows ingested.
C13_StatusDowngrade ==
    \A p \in Procs : ReturnedSummary(p) =>
        /\ inv[p].ret.status \in {"success", "success with warning"}
        /\ (RejectedCount(p) > 0 \/ inv[p].ret.records_appended < Len(inv[p].df))
              => inv[p].ret.status = "success with warning"
        /\ inv[p].ret.status = "success"
              => (inv[p].ret.records_appended = Len(inv[p].df) /\ RejectedCount(p) = 0)

\* C13 witness: a streaming invocation returned after it rejected a row and
\* appended another.
C13_Witness ==
    \E p \in Procs :
        /\ ReturnedSummary(p) /\ IsStream(p)
        /\ RejectedCount(p) > 0
        /\ inv[p].ret.records_appended > 0

\* C14: every normal return of a processor, early exits included, has a
\* status of {success, success with warning, no_messages} together with
\* records_appended and duration_seconds.
C14_SummaryShape ==
    \A p \in Procs : Returned(p) =>
        /\ inv[p].ret.status \in {"success", "success with warning", "no_messages"}
        /\ inv[p].ret.has_counts

\* Both slots hold a streaming invocation that has returned after its
\* overwrite, and they read different objects.
BothOverwrote ==
    /\ \A p \in Procs : Overwrote(p)
    /\ \A p, q \in Procs : p # q => inv[p].paths # inv[q].paths

\* latest_prices has, for some symbol, a row older than a row of that symbol
\* in the historical store.
StaleView ==
    \E v \in latest_prices, h \in BagToSet(stream_prices_history) :
        h.symbol = v.symbol /\ h.produced_at > v.produced_at

\* C15: with two streaming invocations at the same time, whenever both have
\* completed and the view is stale, the view is the result of the query of
\* one of them, and that query scanned the store before the other one had
\* appended its rows.
C15_StaleViewFromQueryBeforeAppend ==
    (BothOverwrote /\ StaleView) =>
        \E q \in Procs : \E o \in Procs \ {q} :
            /\ latest_prices = Rows(inv[q].df_athena)
            /\ ~(SeqToBag(inv[o].df_clean) \sqsubseteq inv[q].queried)

\* C15 witness: both invocations have completed on different objects and
\* the view holds a row older than the latest row of its symbol.
C15_Witness == BothOverwrote /\ StaleView

\* The number of times the invocation in slot p has attempted operation op.
Attempts(p, op) == Cardinality({i \in 1..Len(inv[p].io) : inv[p].io[i] = op})

\* An external operation of the invocation in slot p has failed: a call
\* raised, or Kinesis answered that records of the batch failed.
OperationFailed(p) ==
    \/ inv[p].caught \notin {"", "KeyError"}
    \/ /\ inv[p].handler = "producer" /\ inv[p].pc = "done"
       /\ inv[p].ret.FailedRecordCount > 0

\* C16: in every handler each external operation is attempted at most once
\* per invocation (the streaming processors query Athena twice, for the
\* connectivity check and for the latest prices), and an invocation in which
\* one of them failed, a publish with failed records included, has raised.
C16_NoRetryAndImmediatePropagation ==
    \A p \in Procs :
        /\ \A op \in {"s3.read_csv", "s3.read_json", "s3.to_parquet:append",
                      "s3.to_parquet:overwrite", "s3.to_csv", "kinesis.put_records"} :
             Attempts(p, op) <= 1
        /\ Attempts(p, "athena.read_sql_query") <= (IF IsStream(p) THEN 2 ELSE 1)
        /\ OperationFailed(p) => inv[p].pc = "raised"

\* The SQS invocation in slot p has unwrapped the messages of its event.
Unwrapped(p) ==
    /\ inv[p].handler = "stream"
    /\ inv[p].messages # <<>>
    /\ HasIo(p, "athena.read_sql_query")
    /\ inv[p].caught # "AthenaError"

\* The notifications of the messages that are no test event, as <<message,
\* notification>> positions, and the place of one among them in message
\* order, then notification order.
NotificationsOf(messages) ==
    UNION {{<<i, j>> : j \in 1..Len(messages[i].Records)} :
           i \in {k \in 1..Len(messages) : messages[k].Event # "s3:TestEvent"}}
PlaceOf(messages, n) ==
    Cardinality({m \in NotificationsOf(messages) :
                    m[1] < n[1] \/ (m[1] = n[1] /\ m[2] <= n[2])})

\* C17: the paths an SQS invocation reads are, in message order and then
\* notification order, one path per notification of every message that is
\* no test event; a test event adds no path and the messages after it are
\* unwrapped all the same.
C17_PathsAreNotificationsInOrder ==
    \A p \in Procs : Unwrapped(p) =>
        LET ns == NotificationsOf(inv[p].messages)
        IN  /\ Len(inv[p].paths) = Cardinality(ns)
            /\ \A n \in ns :
                 inv[p].paths[PlaceOf(inv[p].messages, n)]
                     = inv[p].messages[n[1]].Records[n[2]]

\* C17 witness: the event has a test event followed by a message of two
\* notifications, and the two objects were read.
C17_Witness ==
    \E p \in Procs :
        /\ Unwrapped(p)
        /\ Len(inv[p].messages) = 2
        /\ inv[p].messages[1].Event = "s3:TestEvent"
        /\ Len(inv[p].messages[2].Records) = 2
        /\ HasIo(p, "s3.read_json") /\ inv[p].caught = ""

\* C18: every row of a cleaned batch, in the batch and in the streaming
\* processors, has a price that is a number greater than 0 and a date or
\* timestamp that is one.
C18_CleanedPricePositive ==
    \A p \in Procs :
        /\ Joined(p) =>
             \A i \in 1..Len(inv[p].df_clean) :
                 /\ ~inv[p].df_clean[i].close_price.na
                 /\ inv[p].df_clean[i].close_price.v > 0
                 /\ ~inv[p].df_clean[i].date.na
        /\ StreamCleaned(p) =>
             \A i \in 1..Len(inv[p].df_clean) :
                 /\ inv[p].df_clean[i].price > 0
                 /\ inv[p].df_clean[i].p_year = dt_year(Val(inv[p].df_clean[i].produced_at))

\* The rows of df that pass both checks, in their order.
WellFormed(df, price, date) ==
    SelectSeq(df, LAMBDA r : ~PriceFails(r, price) /\ ~DateFails(r, date))

\* C19: the cleaned batch has exactly the rows whose price is a number and
\* whose date is a date, in their order and with their company or symbol;
\* and an invocation whose batch has malformed rows raises only when the
\* configuration is missing or a service failed (a read, a query, a write),
\* never because of those rows.
C19_CleaningDropsExactlyMalformed ==
    \A p \in Procs :
        /\ Joined(p) =>
             LET kept == WellFormed(inv[p].df, "close_price", "date")
             IN  /\ Len(inv[p].df_clean) = Len(kept)
                 /\ \A i \in 1..Len(kept) :
                      /\ inv[p].df_clean[i].company = kept[i].company
                      /\ inv[p].df_clean[i].date = dt_date(Val(kept[i].date.v))
        /\ StreamCleaned(p) =>
             LET kept == WellFormed(inv[p].df, "price", "produced_at")
             IN  /\ Len(inv[p].df_clean) = Len(kept)
                 /\ \A i \in 1..Len(kept) :
                      /\ inv[p].df_clean[i].symbol = kept[i].symbol
                      /\ inv[p].df_clean[i].produced_at = kept[i].produced_at.v
        /\ (IsProcessor(p) /\ RejectedCount(p) > 0 /\ inv[p].pc = "raised")
              => inv[p].caught \in {"KeyError", "S3ReadError", "AthenaError", "S3WriteError"}

\* C20: all the records one invocation of the streaming producer builds
\* carry the same produced_at, and all the rows one invocation of the batch
\* generator builds carry the same date, also when the clock advances while
\* they are built.
C20_SharedGenerationTimestamp ==
    \A p \in Procs :
        /\ inv[p].handler = "producer" =>
             \A i, j \in 1..Len(inv[p].records) :
                 inv[p].records[i].produced_at = inv[p].records[j].produced_at
        /\ inv[p].handler = "generator" =>
             \A i, j \in 1..Len(inv[p].df) : inv[p].df[i].date = inv[p].df[j].date

\* The reference price of a symbol of the table.
RefPrice(symbol) ==
    companies_price[CHOOSE k \in 1..Len(companies_price) :
                        companies_price[k].symbol = symbol].current_price

\* floor(0.9 x ref) <= price < floor(1.1 x ref), in integers: price is at
\* least the floor of x when price + 1 > x, and below the floor of y when
\* price + 1 <= y.
InPriceRange(price, ref) ==
    /\ 10 * (price + 1) > 9 * ref
    /\ 10 * (price + 1) <= 11 * ref

\* C21: every price the streaming producer or the batch generator draws for a
\* symbol is an integer p with floor(0.9 x ref) <= p < floor(1.1 x ref), ref
\* the reference price of the symbol, and for no symbol of the table the
\* range drawn from is empty.
C21_GeneratedPriceInRange ==
    /\ \A k \in 1..Len(companies_price) :
          randrange(min_price(companies_price[k].current_price),
                    max_price(companies_price[k].current_price)) # {}
    /\ \A p \in Procs :
          /\ inv[p].handler = "producer" =>
               \A i \in 1..Len(inv[p].records) :
                   /\ inv[p].records[i].price \in Int
                   /\ InPriceRange(inv[p].records[i].price, RefPrice(inv[p].records[i].symbol))
          /\ inv[p].handler = "generator" =>
               \A i \in 1..Len(inv[p].df) :
                   /\ inv[p].df[i].close_price \in Int
                   /\ InPriceRange(inv[p].df[i].close_price, RefPrice(inv[p].df[i].company))

\* A producer run that drew the highest price of the range for its first
\* record, and a generator run that drew the lowest one.
C21_Witness ==
    \E p \in Procs :
        \/ /\ inv[p].handler = "producer" /\ inv[p].pc = "put_records"
           /\ inv[p].records[1].price = max_price(RefPrice(inv[p].records[1].symbol)) - 1
        \/ /\ inv[p].handler = "generator" /\ inv[p].pc = "to_csv"
           /\ inv[p].df[1].close_price = min_price(RefPrice(inv[p].df[1].company))

\* The symbols of the table.
TableSymbols == {companies_price[k].symbol : k \in 1..Len(companies_price)}

\* C22: the streaming producer submits between 5 and 15 records, each of a
\* symbol of the table and no two of the same symbol; the batch generator
\* builds exactly one row for every symbol of the table.
C22_SymbolSelection ==
    \A p \in Procs :
        /\ (inv[p].handler = "producer" /\ inv[p].records # <<>>) =>
             /\ Len(inv[p].records) >= 5 /\ Len(inv[p].records) <= 15
             /\ \A i \in 1..Len(inv[p].records) : inv[p].records[i].symbol \in TableSymbols
             /\ \A i, j \in 1..Len(inv[p].records) :
                    inv[p].records[i].symbol = inv[p].records[j].symbol => i = j
        /\ (inv[p].handler = "generator" /\ inv[p].df # <<>>) =>
             \A symbol \in TableSymbols :
                 Cardinality({i \in 1..Len(inv[p].df) : inv[p].df[i].company = symbol}) = 1

\* A producer run that put 15 records on the stream.
C22_Witness ==
    \E p \in Procs :
        /\ inv[p].handler = "producer" /\ inv[p].pc = "done"
        /\ HasIo(p, "kinesis.put_records")
        /\ Len(inv[p].records) = 15

\* The batch invocation in slot p has appended its delta and returned.
AppendedAndReturned(p) ==
    /\ inv[p].handler = "batch" /\ inv[p].pc = "done"
    /\ HasIo(p, "s3.to_parquet:append")

\* The keys of the cleaned batch of slot p that come in two rows or more and
\* are in no row of the snapshot.
DuplicateNewKeys(p) ==
    {K \in {BatchKey(inv[p].df_clean[i]) : i \in 1..Len(inv[p].df_clean)} :
        /\ K \notin SnapshotKeys(p)
        /\ Len(SelectSeq(inv[p].df_clean, LAMBDA r : BatchKey(r) = K)) >= 2}

\* The number of rows of a store under a key, every copy counted.
RowsUnderKey(store, K) ==
    BagCardinality([r \in {x \in BagToSet(store) : StoreKey(x) = K} |-> store[r]])

\* C23: when the cleaned batch holds a key in two rows or more and the
\* snapshot holds no row of that key, the batch processor appends every one
\* of these rows (the store then holds as many rows of the key as the batch),
\* and records_appended counts every row of the batch whose key is not in the
\* snapshot, the duplicates included.
C23_DuplicateIncomingRowsAppended ==
    \A p \in Procs : AppendedAndReturned(p) =>
        /\ \A K \in DuplicateNewKeys(p) :
              /\ Len(SelectSeq(inv[p].df_new_records, LAMBDA r : StoreKey(r) = K))
                    = Len(SelectSeq(inv[p].df_clean, LAMBDA r : BatchKey(r) = K))
              /\ RowsUnderKey(price_by_date, K)
                    = Len(SelectSeq(inv[p].df_clean, LAMBDA r : BatchKey(r) = K))
        /\ inv[p].ret.records_appended
              = Len(SelectSeq(inv[p].df_clean, LAMBDA r : BatchKey(r) \notin SnapshotKeys(p)))

\* A returned invocation whose batch held one new key in two rows of
\* different prices.
C23_Witness ==
    \E p \in Procs :
        /\ AppendedAndReturned(p)
        /\ \E K \in DuplicateNewKeys(p) :
              \E i, j \in 1..Len(inv[p].df_clean) :
                  /\ BatchKey(inv[p].df_clean[i]) = K /\ BatchKey(inv[p].df_clean[j]) = K
                  /\ inv[p].df_clean[i].close_price # inv[p].df_clean[j].close_price

\* The step adds op to the operations of the invocation in slot p.
Performs(p, op) == inv'[p].io = inv[p].io \o <<op>>

\* C24: in every step of every invocation of the batch and streaming
\* processors, returning or raising, each row of the persisted daily-price
\* store and of the historical streaming store stays, in as many copies at
\* least; a store changes only in the append step of its own processor; and
\* a step that queries a store changes neither.
C24_StoresAppendOnly ==
    [][ /\ price_by_date \sqsubseteq price_by_date'
        /\ stream_prices_history \sqsubseteq stream_prices_history'
        /\ price_by_date' # price_by_date =>
              \E p \in Procs : /\ inv[p].handler = "batch"
                               /\ Performs(p, "s3.to_parquet:append")
        /\ stream_prices_history' # stream_prices_history =>
              \E p \in Procs : /\ IsStream(p)
                               /\ Performs(p, "s3.to_parquet:append")
        /\ (\E p \in Procs : Performs(p, "athena.read_sql_query")) =>
              /\ price_by_date' = price_by_date
              /\ stream_prices_history' = stream_prices_history
      ]_vars

\* Both stores hold rows, and the invocation that appended last has raised
\* after its append.
C24_Witness ==
    /\ price_by_date # EmptyBag
    /\ stream_prices_history # EmptyBag
    /\ \E p \in Procs : /\ inv[p].pc = "raised"
                        /\ HasIo(p, "s3.to_parquet:append")
                        /\ HasIo(p, "athena.read_sql_query")

\* The number of rows of the cleaned batch of slot p under key K.
RowsOfKeyInBatch(p, K) == Len(SelectSeq(inv[p].df_clean, LAMBDA r : BatchKey(r) = K))

\* Two batch invocations that ran at the same time have both returned.
BothBatchesReturned ==
    \A p \in Procs : inv[p].handler = "batch" /\ inv[p].pc = "done"

\* C25: when two batch invocations run at the same time on two objects that
\* each hold a key once, a key the store did not hold, then after both have
\* returned the store holds that key in one row at most, in whatever order
\* their snapshot reads and their appends were made.
C25_ConcurrentDedup ==
    BothBatchesReturned =>
        \A K \in {BatchKey(inv["p1"].df_clean[i]) : i \in 1..Len(inv["p1"].df_clean)} :
            (\A p \in Procs : /\ RowsOfKeyInBatch(p, K) = 1
                              /\ K \notin SnapshotKeys(p))
                => RowsUnderKey(price_by_date, K) <= 1

\* The streaming invocation in slot p raised in the step that made operation
\* op, the last of its operations, with the message msg in the log.
RaisedIn(p, op, msg) ==
    /\ IsStream(p) /\ inv[p].pc = "raised"
    /\ inv[p].io # <<>> /\ inv[p].io[Len(inv[p].io)] = op
    /\ inv[p].log # <<>> /\ inv[p].log[Len(inv[p].log)].msg = msg
RaisedInQuery(p) == RaisedIn(p, "athena.read_sql_query", "reading data using athena")
RaisedInOverwrite(p) == RaisedIn(p, "s3.to_parquet:overwrite", "writing the file")

\* C26: in every streaming invocation the append to the historical store is
\* made before the latest-price query and the overwrite of the view is the
\* last operation, made after both; so an invocation that raises, at whatever
\* step, leaves the latest view as it met it, and one that raises in the query
\* or in the overwrite has left its cleaned rows in the historical store.
C26_WriteOrderingAndPartialFailure ==
    \A p \in Procs : IsStream(p) =>
        /\ inv[p].pc \in {"query", "overwrite"} => HasIo(p, "s3.to_parquet:append")
        /\ \A i \in 1..Len(inv[p].io) : inv[p].io[i] = "s3.to_parquet:overwrite" =>
              /\ i = Len(inv[p].io)
              /\ \E j \in 1..(i - 1) :
                    /\ inv[p].io[j] = "s3.to_parquet:append"
                    /\ \E k \in (j + 1)..(i - 1) : inv[p].io[k] = "athena.read_sql_query"
        /\ inv[p].pc = "raised" => latest_prices = inv[p].latest_at_start
        /\ (RaisedInQuery(p) \/ RaisedInOverwrite(p)) =>
              stream_prices_history
                  = inv[p].history_at_start (+) SeqToBag(inv[p].df_clean)

\* An invocation raised in the overwrite: the view is the one an earlier
\* invocation wrote, and the historical store has the rows of this one.
C26_Witness ==
    \E p \in Procs :
        /\ RaisedInOverwrite(p)
        /\ inv[p].latest_at_start # {}
        /\ inv[p].df_clean # <<>>
        /\ stream_prices_history # inv[p].history_at_start

\* The streaming invocation in slot p has returned a summary with counts.
StreamReturnedCounts(p) == IsStream(p) /\ inv[p].pc = "done" /\ inv[p].ret.has_counts

\* C27: for every streaming invocation that returns a summary with counts,
\* records_appended is the number of rows the invocation added to the
\* historical store, and records_appended plus the bad-record count it
\* reported (none, when the source had no row) is the number of rows it
\* ingested from the source objects.
C27_RecordCountConservation ==
    \A p \in Procs : StreamReturnedCounts(p) =>
        /\ inv[p].history_at_start \sqsubseteq stream_prices_history
        /\ inv[p].ret.records_appended
              = BagCardinality(stream_prices_history (-) inv[p].history_at_start)
        /\ inv[p].ret.records_appended + inv[p].bad_records_count = Len(inv[p].df)
        /\ Len(inv[p].df) = Len(read_json(inv[p].paths))

\* The second invocation returned after it ingested rows it appended and
\* rows it rejected.
C27_Witness ==
    \E p \in Procs :
        /\ StreamReturnedCounts(p)
        /\ inv[p].history_at_start # EmptyBag
        /\ inv[p].ret.records_appended > 0
        /\ inv[p].bad_records_count > 0

\* C28: for every publish call that returns, SuccessRecordCount is the number
\* of records the stream accepted: SuccessRecordCount + FailedRecordCount is
\* the number of records submitted.
C28_PublisherResultAccounting ==
    \A p \in Procs :
        (inv[p].handler = "producer" /\ inv[p].pc = "done") =>
            inv[p].ret.SuccessRecordCount + inv[p].ret.FailedRecordCount
                = Len(inv[p].records)

====
